---- MODULE Spec2Model ----
(***************************************************************************)
(* pyword.py: a command-line chat client that keeps a conversation in a    *)
(* line-oriented log file and assembles, for every turn, the message list   *)
(* sent to the backend.  Text is modelled as sequences of one-character     *)
(* strings, so that formatting (append_log) and parsing (parse_log,         *)
(* parse_style: splitlines, strip, LOG_RE) are computed character by        *)
(* character as the code computes them.                                     *)
(***************************************************************************)
EXTENDS Integers, Sequences, FiniteSets, TLC

VARIABLES
    file,             \* text of the log file log_fp (a missing file reads as empty)
    style_file,       \* text of the style_log file
    sys_prompt,       \* system_prompt of the configuration
    tail_prompt,      \* tail_prompt of the configuration
    style_msgs,       \* main: style_msgs
    history,          \* main: history
    first_turn,       \* main: first_turn
    user,             \* main: user (the stripped input of the current turn)
    answer,           \* main: answer (the reply of the last successful call)
    messages_to_send, \* main: messages_to_send, the request given to ask_ollama
    pc,               \* position of main: "start", "input", "request", "done"
    clock,            \* the wall clock read by now()
    session,          \* number of runs of main on this log file so far
    turns,            \* number of turns started, all sessions together
    \* history variables, recorded for the properties only
    loaded,           \* history as loaded by parse_log at startup of this session
    file_start,       \* the log text at startup of this session
    h0,               \* history just before the current turn recorded the user message
    f0,               \* the log text just before the current turn wrote its USER line
    outcome,          \* outcome of the last finished turn: "none", "ok", "fail"
    successes,        \* successful exchanges of this session
    failures,         \* failed backend calls of this session
    persisted,        \* history at the last successfully persisted turn
    written,          \* the (tag, content) pairs given to append_log in this session
    steps             \* the statements of the current loop iteration, in program order

vars == <<file, style_file, sys_prompt, tail_prompt, style_msgs, history,
          first_turn, user, answer, messages_to_send, pc, clock, session, turns,
          loaded, file_start, h0, f0, outcome, successes, failures, persisted,
          written, steps>>

----------------------------------------------------------------------------
(* Bounds *)
MaxTurns == 2
MaxSessions == 2
MaxClock == 1
MaxEntries == 2
MaxLines == 3

----------------------------------------------------------------------------
(* Characters and character classes *)

Lowers == <<"a","b","c","d","e","f","g","h","i","j","k","l","m",
            "n","o","p","q","r","s","t","u","v","w","x","y","z">>
Uppers == <<"A","B","C","D","E","F","G","H","I","J","K","L","M",
            "N","O","P","Q","R","S","T","U","V","W","X","Y","Z">>
Digits == <<"0","1","2","3","4","5","6","7","8","9">>

Range(s) == {s[i] : i \in 1..Len(s)}

\* \s of the re module and the characters str.strip() removes
SpaceChars == {" ", "\t", "\n"}
IsSpace(c) == c \in SpaceChars

\* \w of the re module
WordChars == Range(Lowers) \cup Range(Uppers) \cup Range(Digits) \cup {"_"}
IsWord(c) == c \in WordChars

\* the line boundary of str.splitlines()
IsLineBreak(c) == c = "\n"

\* str.upper() and str.lower(), one character at a time
UpperChar(c) == IF \E i \in 1..26 : Lowers[i] = c
                THEN Uppers[CHOOSE i \in 1..26 : Lowers[i] = c] ELSE c
LowerChar(c) == IF \E i \in 1..26 : Uppers[i] = c
                THEN Lowers[CHOOSE i \in 1..26 : Uppers[i] = c] ELSE c
upper(s) == [i \in 1..Len(s) |-> UpperChar(s[i])]
lower(s) == [i \in 1..Len(s) |-> LowerChar(s[i])]

\* str.strip(): drop leading and trailing whitespace
RECURSIVE lstrip(_)
lstrip(s) == IF s # <<>> /\ IsSpace(Head(s)) THEN lstrip(Tail(s)) ELSE s
RECURSIVE rstrip(_)
rstrip(s) == IF s # <<>> /\ IsSpace(s[Len(s)])
             THEN rstrip(SubSeq(s, 1, Len(s) - 1)) ELSE s
strip(s) == rstrip(lstrip(s))

\* str.splitlines(): the lines of a text, without their line breaks; a final
\* line break opens no further line
splitlines(s) ==
    LET at == [i \in 1..Len(s) |-> i]
        \* the positions of the line breaks, in order
        breaks == SelectSeq(at, LAMBDA i : IsLineBreak(s[i]))
        \* a line starts at the first character and after every line break
        \* that is not the last character
        starts == SelectSeq(at, LAMBDA i : i = 1 \/ IsLineBreak(s[i - 1]))
        \* and runs up to its line break, or to the end of the text
        stop(k) == IF k <= Len(breaks) THEN breaks[k] - 1 ELSE Len(s)
    IN  [k \in 1..Len(starts) |-> SubSeq(s, starts[k], stop(k))]

----------------------------------------------------------------------------
\* LOG_RE: a bracketed stamp taken lazily, optional spaces, a word tag, a colon,
\* optional spaces, the rest as content (re.S); applied by re.match

RECURSIVE SkipSpace(_, _)
SkipSpace(s, i) == IF i <= Len(s) /\ IsSpace(s[i]) THEN SkipSpace(s, i + 1) ELSE i
RECURSIVE SkipWord(_, _)
SkipWord(s, i) == IF i <= Len(s) /\ IsWord(s[i]) THEN SkipWord(s, i + 1) ELSE i

\* The part of LOG_RE after the bracket, from position i on.  Each greedy
\* quantifier takes its whole run: giving a character back never lets the
\* next item match.
TailMatch(s, i) ==
    LET j == SkipSpace(s, i)
        k == SkipWord(s, j)
    IN  IF k > j /\ k <= Len(s) /\ s[k] = ":"
        THEN [ok |-> TRUE, tag |-> SubSeq(s, j, k - 1),
              content |-> SubSeq(s, SkipSpace(s, k + 1), Len(s))]
        ELSE [ok |-> FALSE, tag |-> <<>>, content |-> <<>>]

\* re.match anchors at the start; the lazy .*? stops at the first "]" after
\* which the rest of the pattern matches
LOG_RE_match(s) ==
    LET closers == {i \in 2..Len(s) : s[i] = "]" /\ TailMatch(s, i + 1).ok}
    IN  IF s # <<>> /\ s[1] = "[" /\ closers # {}
        THEN TailMatch(s, (CHOOSE i \in closers : \A j \in closers : i <= j) + 1)
        ELSE [ok |-> FALSE, tag |-> <<>>, content |-> <<>>]

----------------------------------------------------------------------------
(* Log codec *)

USER == <<"U","S","E","R">>
LLM == <<"L","L","M">>
SYS == <<"S","Y","S">>
SYSTEM == <<"S","Y","S","T","E","M">>

Msg(r, c) == [role |-> r, content |-> c]

\* now(): the ISO time of the clock, here minutes:seconds
now(c) == <<"0", ":", Digits[c + 1]>>

\* the line append_log writes
LogLine(stamp, role, content) ==
    <<"[">> \o stamp \o <<"]", " ">> \o role \o <<":", " ">> \o content \o <<"\n">>

\* a slip: the file opened with "w"
AppendLogOverwrite(f, stamp, role, content) == LogLine(stamp, role, content)

\* open(path, "a") and one write
append_log(f, stamp, role, content) == f \o LogLine(stamp, role, content)

\* a slip: the tag looked up in any letter case
LogLineMsgsAnyCase(line) ==
    LET m == LOG_RE_match(strip(line))
    IN  IF m.ok /\ upper(m.tag) \in {USER, LLM}
        THEN <<Msg(IF upper(m.tag) = USER THEN "user" ELSE "assistant", m.content)>>
        ELSE <<>>

\* a slip: the fallback of parse_style used for the log
LogLineMsgsFallback(line) ==
    LET m == LOG_RE_match(strip(line))
    IN  IF m.ok
        THEN <<Msg(IF m.tag = USER THEN "user"
                   ELSE IF m.tag = LLM THEN "assistant" ELSE "system", m.content)>>
        ELSE <<>>

\* what one line adds to msgs in parse_log
LogLineMsgs(line) ==
    LET m == LOG_RE_match(strip(line))
    IN  IF m.ok /\ m.tag \in {USER, LLM}
        THEN <<Msg(IF m.tag = USER THEN "user" ELSE "assistant", m.content)>>
        ELSE <<>>

RECURSIVE ParseLogLines(_)
ParseLogLines(ls) ==
    IF ls = <<>> THEN <<>> ELSE LogLineMsgs(Head(ls)) \o ParseLogLines(Tail(ls))
parse_log(f) == ParseLogLines(splitlines(f))

\* a slip: the tag looked up as written
StyleRoleCaseSensitive(tag) ==
    IF tag \in {SYS, SYSTEM} THEN "system"
    ELSE IF tag = USER THEN "user"
    ELSE IF tag = LLM THEN "assistant"
    ELSE "system"

\* role_map.get(tag.upper(), "system") of parse_style
StyleRole(tag) ==
    LET t == upper(tag)
    IN  IF t \in {SYS, SYSTEM} THEN "system"
        ELSE IF t = USER THEN "user"
        ELSE IF t = LLM THEN "assistant"
        ELSE "system"

\* what one line adds to msgs in parse_style
StyleLineMsgs(line) ==
    LET m == LOG_RE_match(strip(line))
    IN  IF m.ok THEN <<Msg(StyleRole(m.tag), m.content)>> ELSE <<>>

RECURSIVE ParseStyleLines(_)
ParseStyleLines(ls) ==
    IF ls = <<>> THEN <<>> ELSE StyleLineMsgs(Head(ls)) \o ParseStyleLines(Tail(ls))
parse_style(f) == ParseStyleLines(splitlines(f))

----------------------------------------------------------------------------
(* Sample texts *)

s_hi == <<"h", "i">>
s_ok == <<"o", "k">>
s_A == <<"A">>
s_B == <<"B">>
s_C == <<"C">>
s_exit == <<"e", "x", "i", "t">>
s_quit == <<"q", "u", "i", "t">>
NOTE == <<"N", "O", "T", "E">>

\* what the user may type on one line (input() returns no line break)
RawInputs == { <<" ", "h", "i", " ">>,            \* surrounded by blanks
               <<" ">>,                           \* blank
               s_exit,
               <<" ", "Q", "u", "I", "t">> }

\* what the backend may reply
Answers == { s_ok,
             <<"a", "\n", "b">> }                 \* two lines

\* log file of an earlier conversation, with an annotation line in between
OldLog == LogLine(now(0), USER, s_hi) \o LogLine(now(0), NOTE, <<"n">>)
          \o LogLine(now(0), LLM, s_ok)
InitLogs == { <<>>, OldLog }

\* style_log file: a SYS line, a lower-case user line, an annotation line
StyleText == LogLine(<<"s">>, SYS, s_A) \o LogLine(<<"s">>, lower(USER), s_hi)
             \o LogLine(<<"s">>, NOTE, <<"n">>)
StyleFiles == { <<>>, StyleText }

\* (system_prompt, tail_prompt) of the configuration
Prompts == { <<<<>>, <<>>>>, <<s_B, <<>>>>, <<<<>>, s_C>>, <<s_B, s_C>>, <<s_B, s_B>> }

ExitWords == {s_exit, s_quit}

----------------------------------------------------------------------------
(* The session: main *)

Init ==
    /\ file \in InitLogs
    /\ style_file \in StyleFiles
    /\ \E p \in Prompts : sys_prompt = p[1] /\ tail_prompt = p[2]
    /\ style_msgs = <<>>
    /\ history = <<>>
    /\ first_turn = TRUE
    /\ user = <<>>
    /\ answer = <<>>
    /\ messages_to_send = <<>>
    /\ pc = "start"
    /\ clock = 0
    /\ session = 0
    /\ turns = 0
    /\ loaded = <<>>
    /\ file_start = <<>>
    /\ h0 = <<>>
    /\ f0 = <<>>
    /\ outcome = "none"
    /\ successes = 0
    /\ failures = 0
    /\ persisted = <<>>
    /\ written = <<>>
    /\ steps = <<>>

\* time passes between two calls of append_log
Tick ==
    /\ clock < MaxClock
    /\ clock' = clock + 1
    /\ UNCHANGED <<file, style_file, sys_prompt, tail_prompt, style_msgs, history,
                   first_turn, user, answer, messages_to_send, pc, session, turns,
                   loaded, file_start, h0, f0, outcome, successes, failures,
                   persisted, written,
                   steps>>

\* main up to the turn loop: load the style transcript and the history
Startup ==
    /\ pc = "start"
    /\ style_msgs' = parse_style(style_file)
    /\ history' = parse_log(file)
    /\ first_turn' = TRUE
    /\ pc' = "input"
    /\ session' = session + 1
    /\ loaded' = history'
    /\ file_start' = file
    /\ h0' = history'
    /\ f0' = file
    /\ outcome' = "none"
    /\ successes' = 0
    /\ failures' = 0
    /\ persisted' = history'
    /\ written' = <<>>
    /\ steps' = <<>>
    /\ UNCHANGED <<file, style_file, sys_prompt, tail_prompt, user, answer,
                   messages_to_send, clock, turns>>

\* a slip: the keyword compared as typed
IsExitInputCaseSensitive(raw) == strip(raw) \in ExitWords

\* user.lower() in {"exit", "quit"}, user the stripped input line
IsExitInput(raw) == lower(strip(raw)) \in ExitWords

\* the exit keyword ends the loop
UserExit(raw) ==
    /\ pc = "input"
    /\ IsExitInput(raw)
    /\ user' = strip(raw)
    /\ pc' = "done"
    /\ steps' = <<"input", "break">>
    /\ UNCHANGED <<file, style_file, sys_prompt, tail_prompt, style_msgs, history,
                   first_turn, answer, messages_to_send, clock, session, turns,
                   loaded, file_start, h0, f0, outcome, successes, failures,
                   persisted, written>>

\* a slip: the system_prompt message appended after the history
AssembleSysAfterHistory(style, sysp, tailp, hist, first) ==
    LET messages == IF first
                    THEN style \o hist
                               \o (IF sysp # <<>> THEN <<Msg("system", sysp)>> ELSE <<>>)
                    ELSE hist
    IN  [messages_to_send |-> IF tailp # <<>>
                              THEN messages \o <<Msg("system", tailp)>>
                              ELSE messages,
         style_msgs |-> style,
         history |-> hist]

\* a slip: the seed sent on every turn, first_turn not consulted
AssembleEveryTurn(style, sysp, tailp, hist, first) ==
    LET messages == style \o (IF sysp # <<>> THEN <<Msg("system", sysp)>> ELSE <<>>)
                          \o hist
    IN  [messages_to_send |-> IF tailp # <<>>
                              THEN messages \o <<Msg("system", tailp)>>
                              ELSE messages,
         style_msgs |-> style,
         history |-> hist]

\* a slip: messages = style_msgs without .copy(), so that += extends the
\* style transcript itself
AssembleNoCopy(style, sysp, tailp, hist, first) ==
    LET messages == IF first
                    THEN style \o (IF sysp # <<>> THEN <<Msg("system", sysp)>> ELSE <<>>)
                               \o hist
                    ELSE hist
    IN  [messages_to_send |-> IF tailp # <<>>
                              THEN messages \o <<Msg("system", tailp)>>
                              ELSE messages,
         style_msgs |-> IF first THEN messages ELSE style,
         history |-> hist]

\* the lists after the request of a turn is assembled: the request, and
\* style_msgs and history as the assembly leaves them (messages starts as a
\* copy of style_msgs, and the request with a tail_prompt is a new list)
Assemble(style, sysp, tailp, hist, first) ==
    LET messages == IF first
                    THEN style \o (IF sysp # <<>> THEN <<Msg("system", sysp)>> ELSE <<>>)
                               \o hist
                    ELSE hist
    IN  [messages_to_send |-> IF tailp # <<>>
                              THEN messages \o <<Msg("system", tailp)>>
                              ELSE messages,
         style_msgs |-> style,
         history |-> hist]

\* a slip: a blank input skipped
UserTurnSkipsBlank(raw) ==
    /\ pc = "input"
    /\ turns < MaxTurns
    /\ ~IsExitInput(raw)
    /\ strip(raw) # <<>>
    /\ user' = strip(raw)
    /\ clock' = clock + 1
    /\ file' = append_log(file, now(clock'), USER, user')
    /\ LET a == Assemble(style_msgs, sys_prompt, tail_prompt,
                         Append(history, Msg("user", user')), first_turn)
       IN  /\ messages_to_send' = a.messages_to_send
           /\ style_msgs' = a.style_msgs
           /\ history' = a.history
    /\ pc' = "request"
    /\ turns' = turns + 1
    /\ h0' = history
    /\ f0' = file
    /\ written' = Append(written, <<USER, user'>>)
    /\ steps' = <<"input", "append_user", "log_user", "assemble", "request">>
    /\ UNCHANGED <<style_file, sys_prompt, tail_prompt, first_turn, answer,
                   session, loaded, file_start, outcome, successes, failures,
                   persisted>>

\* a turn up to the backend call: record the user message, log it, assemble;
\* the clock has moved on while the program waited for the input line
UserTurn(raw) ==
    /\ pc = "input"
    /\ turns < MaxTurns
    /\ ~IsExitInput(raw)
    /\ user' = strip(raw)
    /\ clock' = clock + 1
    /\ file' = append_log(file, now(clock'), USER, user')
    /\ LET a == Assemble(style_msgs, sys_prompt, tail_prompt,
                         Append(history, Msg("user", user')), first_turn)
       IN  /\ messages_to_send' = a.messages_to_send
           /\ style_msgs' = a.style_msgs
           /\ history' = a.history
    /\ pc' = "request"
    /\ turns' = turns + 1
    /\ h0' = history
    /\ f0' = file
    /\ written' = Append(written, <<USER, user'>>)
    /\ steps' = <<"input", "append_user", "log_user", "assemble", "request">>
    /\ UNCHANGED <<style_file, sys_prompt, tail_prompt, first_turn, answer,
                   session, loaded, file_start, outcome, successes, failures,
                   persisted>>

\* a slip: first_turn not cleared after a reply
ReplyOkKeepsFirstTurn(ans) ==
    /\ pc = "request"
    /\ answer' = ans
    /\ history' = Append(history, Msg("assistant", ans))
    /\ file' = append_log(file, now(clock), LLM, ans)
    /\ pc' = "input"
    /\ outcome' = "ok"
    /\ successes' = successes + 1
    /\ persisted' = history'
    /\ written' = Append(written, <<LLM, ans>>)
    /\ steps' = steps \o <<"reply", "append_assistant", "log_llm", "clear_first_turn">>
    /\ UNCHANGED <<style_file, sys_prompt, tail_prompt, style_msgs, first_turn, user,
                   messages_to_send, clock, session, turns, loaded, file_start,
                   h0, f0, failures>>

\* a slip: the LLM line written before the reply is recorded
ReplyOkLogsFirst(ans) ==
    /\ pc = "request"
    /\ answer' = ans
    /\ history' = Append(history, Msg("assistant", ans))
    /\ file' = append_log(file, now(clock), LLM, ans)
    /\ first_turn' = FALSE
    /\ pc' = "input"
    /\ outcome' = "ok"
    /\ successes' = successes + 1
    /\ persisted' = history'
    /\ written' = Append(written, <<LLM, ans>>)
    /\ steps' = steps \o <<"reply", "log_llm", "append_assistant", "clear_first_turn">>
    /\ UNCHANGED <<style_file, sys_prompt, tail_prompt, style_msgs, user,
                   messages_to_send, clock, session, turns, loaded, file_start,
                   h0, f0, failures>>

\* a slip: the reply recorded but not logged
ReplyOkNoLog(ans) ==
    /\ pc = "request"
    /\ answer' = ans
    /\ history' = Append(history, Msg("assistant", ans))
    /\ first_turn' = FALSE
    /\ pc' = "input"
    /\ outcome' = "ok"
    /\ successes' = successes + 1
    /\ persisted' = history'
    /\ steps' = steps \o <<"reply", "append_assistant", "log_llm", "clear_first_turn">>
    /\ UNCHANGED <<file, written, style_file, sys_prompt, tail_prompt, style_msgs, user,
                   messages_to_send, clock, session, turns, loaded, file_start,
                   h0, f0, failures>>

\* ask_ollama returned a reply
ReplyOk(ans) ==
    /\ pc = "request"
    /\ answer' = ans
    /\ history' = Append(history, Msg("assistant", ans))
    /\ file' = append_log(file, now(clock), LLM, ans)
    /\ first_turn' = FALSE
    /\ pc' = "input"
    /\ outcome' = "ok"
    /\ successes' = successes + 1
    /\ persisted' = history'
    /\ written' = Append(written, <<LLM, ans>>)
    /\ steps' = steps \o <<"reply", "append_assistant", "log_llm", "clear_first_turn">>
    /\ UNCHANGED <<style_file, sys_prompt, tail_prompt, style_msgs, user,
                   messages_to_send, clock, session, turns, loaded, file_start,
                   h0, f0, failures>>

\* a slip: the user message kept in history after a failure
ReplyFailNoRollback ==
    /\ pc = "request"
    /\ pc' = "input"
    /\ outcome' = "fail"
    /\ failures' = failures + 1
    /\ steps' = steps \o <<"error", "pop">>
    /\ UNCHANGED <<file, style_file, sys_prompt, tail_prompt, style_msgs, history,
                   first_turn, user, answer, messages_to_send, clock, session,
                   turns, loaded, file_start, h0, f0, successes, persisted,
                   written>>

\* a slip: an exception of the backend call not caught, the loop left
ReplyFailEndsSession ==
    /\ pc = "request"
    /\ history' = SubSeq(history, 1, Len(history) - 1)
    /\ pc' = "done"
    /\ outcome' = "fail"
    /\ failures' = failures + 1
    /\ steps' = steps \o <<"error", "pop">>
    /\ UNCHANGED <<file, style_file, sys_prompt, tail_prompt, style_msgs,
                   first_turn, user, answer, messages_to_send, clock, session,
                   turns, loaded, file_start, h0, f0, successes, persisted,
                   written>>

\* a slip: first_turn cleared on a failed call as well
ReplyFailClearsFirstTurn ==
    /\ pc = "request"
    /\ history' = SubSeq(history, 1, Len(history) - 1)
    /\ first_turn' = FALSE
    /\ pc' = "input"
    /\ outcome' = "fail"
    /\ failures' = failures + 1
    /\ steps' = steps \o <<"error", "pop">>
    /\ UNCHANGED <<file, style_file, sys_prompt, tail_prompt, style_msgs,
                   user, answer, messages_to_send, clock, session,
                   turns, loaded, file_start, h0, f0, successes, persisted,
                   written>>

\* a slip: history.pop(0), the oldest message removed
ReplyFailPopsFirst ==
    /\ pc = "request"
    /\ history' = Tail(history)
    /\ pc' = "input"
    /\ outcome' = "fail"
    /\ failures' = failures + 1
    /\ steps' = steps \o <<"error", "pop">>
    /\ UNCHANGED <<file, style_file, sys_prompt, tail_prompt, style_msgs,
                   first_turn, user, answer, messages_to_send, clock, session,
                   turns, loaded, file_start, h0, f0, successes, persisted,
                   written>>

\* ask_ollama raised
ReplyFail ==
    /\ pc = "request"
    /\ history' = SubSeq(history, 1, Len(history) - 1)
    /\ pc' = "input"
    /\ outcome' = "fail"
    /\ failures' = failures + 1
    /\ steps' = steps \o <<"error", "pop">>
    /\ UNCHANGED <<file, style_file, sys_prompt, tail_prompt, style_msgs,
                   first_turn, user, answer, messages_to_send, clock, session,
                   turns, loaded, file_start, h0, f0, successes, persisted,
                   written>>

\* the program is run again on the same log file (--log)
Restart ==
    /\ pc = "done"
    /\ session < MaxSessions
    /\ pc' = "start"
    /\ UNCHANGED <<file, style_file, sys_prompt, tail_prompt, style_msgs, history,
                   first_turn, user, answer, messages_to_send, clock, session,
                   turns, loaded, file_start, h0, f0, outcome, successes,
                   failures, persisted, written,
                   steps>>

Next ==
    \/ Startup
    \/ \E raw \in RawInputs : UserExit(raw)
    \/ \E raw \in RawInputs : UserTurn(raw)
    \/ \E ans \in Answers : ReplyOk(ans)
    \/ ReplyFail
    \/ Restart

Spec == Init /\ [][Next]_vars

----------------------------------------------------------------------------
(* The codec alone: entries appended to a fresh log *)

\* contents the program writes with tag USER (stripped input lines) and with
\* tag LLM (any reply)
CodecUserContents == { <<>>, s_hi, <<"a", ":", "b", "]">> }
CodecLLMContents == { <<>>, s_ok, <<"[", "x", "]", " ", "c", ":", "d">>,
                      <<" ", "o", "k">>, <<"o", "k", " ">>, <<"a", "\n", "b">> }

Idle ==
    /\ style_msgs = <<>> /\ history = <<>> /\ first_turn = TRUE
    /\ user = <<>> /\ answer = <<>> /\ messages_to_send = <<>>
    /\ pc = "start" /\ clock = 0 /\ session = 0 /\ turns = 0
    /\ loaded = <<>> /\ file_start = <<>> /\ h0 = <<>> /\ f0 = <<>>
    /\ outcome = "none" /\ successes = 0 /\ failures = 0
    /\ persisted = <<>> /\ written = <<>> /\ steps = <<>>
    /\ sys_prompt = <<>> /\ tail_prompt = <<>>

InitCodec ==
    /\ file = <<>>
    /\ style_file = <<>>
    /\ Idle

\* one call of append_log
WriteEntry(role, content) ==
    /\ Len(written) < MaxEntries
    /\ file' = append_log(file, now(clock), role, content)
    /\ written' = Append(written, <<role, content>>)
    /\ UNCHANGED <<style_file, sys_prompt, tail_prompt, style_msgs, history,
                   first_turn, user, answer, messages_to_send, pc, clock, session,
                   turns, loaded, file_start, h0, f0, outcome, successes,
                   failures, persisted,
                   steps>>

NextCodec ==
    \/ Tick
    \/ \E c \in CodecUserContents : WriteEntry(USER, c)
    \/ \E c \in CodecLLMContents : WriteEntry(LLM, c)

SpecCodec == InitCodec /\ [][NextCodec]_vars

----------------------------------------------------------------------------
(* The parsers alone: startup on given files *)

SampleLines ==
    { <<"[", "0", "]", " ", "U", "S", "E", "R", ":", " ", "h", "i">>,
      <<"[", "0", "]", " ", "L", "L", "M", ":", " ", "a", ":", "b", "]">>,
      <<"[", "0", "]", " ", "N", "O", "T", "E", ":", " ", "n">>,
      <<"[", "0", "]", " ", "u", "s", "e", "r", ":", " ", "h", "i">>,
      <<"[", "0", "]", " ", "l", "l", "m", ":", " ", "o", "k">>,
      <<" ", "[", "0", "]", "S", "y", "s", "t", "e", "m", ":", "A", " ">>,
      <<"[", "0", "]", " ", "s", "y", "s", ":", " ", "A">>,
      <<"h", "i", " ", "y", "o", "u">>,
      <<"U", "S", "E", "R", ":", " ", "h", "i">> }

\* the texts of at most n lines, each ended by a line break
RECURSIVE TextsUpTo(_)
TextsUpTo(n) ==
    IF n = 0 THEN { <<>> }
    ELSE TextsUpTo(n - 1)
         \cup { t \o l \o <<"\n">> : t \in TextsUpTo(n - 1), l \in SampleLines }

InitParse ==
    /\ file \in TextsUpTo(MaxLines)
    /\ style_file = file
    /\ Idle

SpecParse == InitParse /\ [][Startup]_vars

----------------------------------------------------------------------------
(* Properties *)

SysMsg == Msg("system", sys_prompt)
TailMsg == Msg("system", tail_prompt)
SysPart == IF sys_prompt # <<>> THEN <<SysMsg>> ELSE <<>>
TailPart == IF tail_prompt # <<>> THEN <<TailMsg>> ELSE <<>>
UserMsg == Msg("user", user)
Count(m, x) == Cardinality({i \in 1..Len(m) : m[i] = x})

\* C1: while first_turn is true, the request of a turn is the style
\* transcript, then the system_prompt message iff system_prompt is non-empty,
\* then the history loaded from the log followed by the user message just
\* entered, then the tail_prompt message iff tail_prompt is non-empty.
C1_FirstTurnRequest ==
    (pc = "request" /\ first_turn) =>
        /\ history = Append(loaded, UserMsg)
        /\ messages_to_send = parse_style(style_file) \o SysPart \o history \o TailPart

C1_Witness ==
    /\ pc = "request" /\ first_turn /\ failures >= 1
    /\ loaded # <<>> /\ style_msgs # <<>>
    /\ sys_prompt # <<>> /\ tail_prompt # <<>>

\* C2: after at least one successful exchange of the session, the request of
\* a turn is the history (the loaded messages, then two messages per
\* successful turn, then the user message just entered) followed by the
\* tail_prompt message iff tail_prompt is non-empty; nothing else is injected,
\* so its only system-role message is that trailing one.
C2_LaterRequest ==
    (pc = "request" /\ successes >= 1) =>
        /\ history = Append(h0, UserMsg)
        /\ Len(h0) = Len(loaded) + 2 * successes
        /\ SubSeq(h0, 1, Len(loaded)) = loaded
        /\ messages_to_send = history \o TailPart
        /\ \A i \in 1..Len(messages_to_send) :
               messages_to_send[i].role = "system"
                   => (i = Len(messages_to_send) /\ tail_prompt # <<>>)

C2_Witness ==
    /\ pc = "request" /\ successes >= 1
    /\ style_msgs # <<>> /\ sys_prompt # <<>> /\ tail_prompt # <<>>

\* C3 as stated: with a non-empty system_prompt, no request after the first
\* turn of the session contains the system_prompt message (taken with a
\* tail_prompt that differs from system_prompt, so that the injected message
\* is the only one of that value).
C3_OnlyFirstTurn ==
    (pc = "request" /\ successes + failures >= 1
       /\ sys_prompt # <<>> /\ tail_prompt # sys_prompt)
        => Count(messages_to_send, SysMsg) = 0

\* C3 amended: with a non-empty system_prompt, every request issued before
\* the first successful exchange of the session carries the system_prompt
\* message once, right after the style transcript, and no request after a
\* successful exchange carries it (a message of that value is then only the
\* tail_prompt message, when the two prompts are equal).
C3_UntilFirstSuccess ==
    (pc = "request" /\ sys_prompt # <<>>) =>
        IF successes = 0
        THEN /\ Len(messages_to_send) > Len(style_msgs)
             /\ messages_to_send[Len(style_msgs) + 1] = SysMsg
             /\ Count(messages_to_send, SysMsg)
                  = 1 + Count(style_msgs, SysMsg) + Count(TailPart, SysMsg)
        ELSE Count(messages_to_send, SysMsg) = Count(TailPart, SysMsg)

C3_Witness ==
    /\ pc = "request" /\ sys_prompt # <<>>
    /\ failures >= 1 /\ successes = 0

\* C4: after a failed backend call the history is the history from before
\* the turn recorded its user message, and the log is the log from before the
\* turn plus exactly the USER line of the turn (no LLM line).
C4_FailureRollback ==
    (pc = "input" /\ outcome = "fail") =>
        /\ history = h0
        /\ file = append_log(f0, now(clock), USER, user)
        /\ written # <<>> /\ written[Len(written)] = <<USER, user>>

C4_Witness ==
    pc = "input" /\ outcome = "fail" /\ h0 # <<>> /\ successes >= 1

\* C5: after a failed backend call both the history and the log are as they
\* were before the user message of the turn was queued.
C5_NoOrphanEntry ==
    (pc = "input" /\ outcome = "fail") => (history = h0 /\ file = f0)

\* C6: a session started again on the same log file loads a history equal to
\* the history the previous session had at its last successfully persisted
\* turn.
C6_IdempotentRestart ==
    [][(pc = "start" /\ session >= 1 /\ pc' = "input") => history' = persisted]_vars

\* C7: parsing a fresh log written by append_log gives one message per
\* written pair, in order, with the mapped role and the written content.
TagRole(tag) == IF tag = USER THEN "user" ELSE "assistant"
C7_RoundTrip ==
    parse_log(file) = [i \in 1..Len(written) |-> Msg(TagRole(written[i][1]), written[i][2])]

\* a line of the grammar whose tag is exactly USER or LLM
IsValidLine(l) ==
    LET m == LOG_RE_match(strip(l)) IN m.ok /\ (m.tag = USER \/ m.tag = LLM)

RECURSIVE JoinLines(_)
JoinLines(ls) ==
    IF ls = <<>> THEN <<>> ELSE Head(ls) \o <<"\n">> \o JoinLines(Tail(ls))

KnownStyleTags == {SYS, SYSTEM, USER, LLM}
ExpectedStyleRole(tag) ==
    IF upper(tag) = USER THEN "user"
    ELSE IF upper(tag) = LLM THEN "assistant"
    ELSE "system"

\* C9: parse_style gives one message per grammar-matching line, with role
\* system for SYS/SYSTEM, user for USER, assistant for LLM in any letter case
\* and role system for every other tag, the content unchanged; parse_log
\* gives no message for a line whose tag is not exactly USER or LLM.
C9_StyleAsymmetry ==
    (pc = "input") =>
        LET ls == splitlines(style_file)
            match(l) == LOG_RE_match(strip(l))
            ok(l) == match(l).ok
            grammar == SelectSeq(ls, ok)
        IN  /\ style_msgs = [i \in 1..Len(grammar) |->
                               Msg(ExpectedStyleRole(match(grammar[i]).tag),
                                   match(grammar[i]).content)]
            /\ \A i \in 1..Len(grammar) :
                   upper(match(grammar[i]).tag) \notin KnownStyleTags
                       => /\ style_msgs[i].role = "system"
                          /\ parse_log(grammar[i] \o <<"\n">>) = <<>>
            /\ parse_style(LogLine(now(0), NOTE, s_hi)) = <<Msg("system", s_hi)>>
            /\ parse_log(LogLine(now(0), NOTE, s_hi)) = <<>>

C9_Witness ==
    /\ pc = "input"
    /\ \E i \in 1..Len(style_msgs) : style_msgs[i].role = "user"
    /\ \E i \in 1..Len(splitlines(style_file)) :
           LET m == LOG_RE_match(strip(splitlines(style_file)[i]))
           IN  m.ok /\ m.tag = NOTE
    /\ Len(history) < Len(style_msgs)

\* C10: a step of the turn loop leaves style_msgs as loaded; it changes the
\* history only by appending the user message of the turn, appending the
\* reply, or removing the last message, and the log only by appending a USER
\* line with the input or an LLM line with the reply: no prompt message and
\* no style message is added to either, and assembling the request leaves the
\* history as the user message extended it.
C10_Frame ==
    [][(pc # "start") =>
        /\ style_msgs' = style_msgs
        /\ style_msgs = parse_style(style_file)
        /\ (pc' = "request" /\ pc = "input") => history' = Append(history, Msg("user", user'))
        /\ history' \in { history,
                          Append(history, Msg("user", user')),
                          Append(history, Msg("assistant", answer')),
                          SubSeq(history, 1, Len(history) - 1) }
        /\ file' \in { file,
                       append_log(file, now(clock'), USER, user'),
                       append_log(file, now(clock'), LLM, answer') }
      ]_vars

C10_Witness ==
    /\ pc = "input" /\ successes >= 1 /\ failures >= 1
    /\ style_msgs # <<>> /\ sys_prompt # <<>> /\ tail_prompt # <<>>

----------------------------------------------------------------------------
(* The exit keyword alone: the loop on inputs around the keywords *)

KeywordInputs ==
    { s_exit, <<" ", "E", "X", "I", "T", " ">>, <<"Q", "u", "i", "T">>,
      <<"e", "x", "i", "t", "s">>, <<"e", "x", " ", "i", "t">>,
      <<"q", "u", "i", "t", "!">>, <<"q">>, <<" ">> }

InitKeyword ==
    /\ file \in InitLogs
    /\ style_file = <<>>
    /\ Idle

NextKeyword ==
    \/ Startup
    \/ \E raw \in KeywordInputs : UserExit(raw)
    \/ \E raw \in KeywordInputs : UserTurn(raw)
    \/ ReplyOk(s_ok)
    \/ ReplyFail

SpecKeyword == InitKeyword /\ [][NextKeyword]_vars

----------------------------------------------------------------------------
(* Properties of the turn loop *)

IsPrefix(a, b) == Len(a) <= Len(b) /\ SubSeq(b, 1, Len(a)) = a

\* C11: a failed backend call leaves the loop waiting for the next input in
\* the same session; from there a further turn can start, and a request
\* issued after a failure can still be answered.
C11_FailureKeepsSession ==
    [][ /\ (pc = "request" /\ failures' = failures + 1)
            => (pc' = "input" /\ session' = session)
        /\ (pc = "input" /\ outcome = "fail" /\ turns < MaxTurns)
            => ENABLED (\E raw \in RawInputs : UserTurn(raw))
        /\ (pc = "request" /\ failures >= 1)
            => ENABLED (\E ans \in Answers : ReplyOk(ans))
      ]_vars

C11_Witness ==
    pc = "input" /\ failures >= 1 /\ outcome = "ok" /\ successes >= 1

\* exit or quit in any letter case
ExitLetters == << {"e", "E"}, {"x", "X"}, {"i", "I"}, {"t", "T"} >>
QuitLetters == << {"q", "Q"}, {"u", "U"}, {"i", "I"}, {"t", "T"} >>
IsKeyword(s) ==
    /\ Len(s) = 4
    /\ \/ \A i \in 1..4 : s[i] \in ExitLetters[i]
       \/ \A i \in 1..4 : s[i] \in QuitLetters[i]

\* C12: a trimmed input that is exit or quit in any letter case ends the
\* loop without a history append, a log write or a request; every other
\* trimmed input starts a turn: it is recorded, logged and a request is made.
C12_ExitKeyword ==
    [][ (pc = "input") =>
            IF IsKeyword(user')
            THEN /\ pc' = "done"
                 /\ history' = history
                 /\ file' = file
                 /\ messages_to_send' = messages_to_send
            ELSE /\ pc' = "request"
                 /\ history' = Append(history, Msg("user", user'))
                 /\ file' = append_log(file, now(clock'), USER, user')
      ]_vars

C12_Witness ==
    /\ pc = "done" /\ IsKeyword(user) /\ user # lower(user)
    /\ turns >= 1 /\ Len(history) > Len(loaded)

\* C13: the log only grows at its end: the text of the log in a state is a
\* prefix of its text in the next state, and so are its lines.
C13_AppendOnly ==
    [][ /\ IsPrefix(file, file')
        /\ IsPrefix(splitlines(file), splitlines(file')) ]_vars

C13_Witness ==
    /\ session = 2 /\ pc = "input" /\ outcome = "fail"
    /\ file_start # <<>> /\ Len(file) > Len(file_start)

\* C14: first_turn is true exactly until the first successful reply of the
\* session; every request issued before that reply, retries and the first
\* request on a reloaded log included, starts with the style transcript and
\* the system_prompt message; within a session the flag, once false, stays
\* false.
C14_FirstTurnFlag ==
    [][ /\ (pc \in {"input", "request"}) => (first_turn <=> successes = 0)
        /\ (pc = "request" /\ successes = 0)
            => IsPrefix(parse_style(style_file) \o SysPart, messages_to_send)
        /\ (~first_turn /\ session' = session) => ~first_turn'
      ]_vars

C14_Witness ==
    /\ pc = "request" /\ first_turn /\ session = 2 /\ failures >= 1
    /\ loaded # <<>> /\ style_msgs # <<>> /\ sys_prompt # <<>>

\* the place of a statement in the current loop iteration, 0 when not run
Pos(e) == IF \E i \in 1..Len(steps) : steps[i] = e
          THEN CHOOSE i \in 1..Len(steps) : steps[i] = e ELSE 0

\* C15: when the request is issued the user message is in the history and
\* its USER line is the last line of the log; an LLM line is written only
\* after a reply, after the assistant message is appended; the USER line and
\* the LLM line of a turn are adjacent in the log.
C15_TurnOrdering ==
    /\ (pc = "request") =>
           /\ 0 < Pos("append_user") /\ Pos("append_user") < Pos("request")
           /\ 0 < Pos("log_user") /\ Pos("log_user") < Pos("request")
           /\ history # <<>> /\ history[Len(history)] = UserMsg
           /\ file = append_log(f0, now(clock), USER, user)
           /\ Pos("log_llm") = 0
    /\ (Pos("log_llm") > 0) =>
           /\ Pos("request") < Pos("reply")
           /\ Pos("reply") < Pos("append_assistant")
           /\ Pos("append_assistant") < Pos("log_llm")
           /\ outcome = "ok"
           /\ (pc = "input") =>
                  /\ history[Len(history)] = Msg("assistant", answer)
                  /\ file = append_log(append_log(f0, now(clock), USER, user),
                                       now(clock), LLM, answer)
    /\ (pc = "input" /\ outcome = "fail") => Pos("log_llm") = 0

C15_Witness ==
    pc = "input" /\ outcome = "ok" /\ Pos("log_llm") > 0 /\ failures >= 1

\* C16: a successful turn leaves the history as it was before the turn,
\* followed by the user message with the input and the assistant message with
\* the reply; a failed turn leaves it as it was before the turn.
C16_HistoryGrowth ==
    (pc = "input") =>
        /\ (outcome = "ok") => history = h0 \o <<UserMsg, Msg("assistant", answer)>>
        /\ (outcome = "fail") => history = h0
        /\ Len(history) = Len(loaded) + 2 * successes

C16_Witness ==
    pc = "input" /\ outcome = "ok" /\ h0 # <<>> /\ failures >= 1 /\ loaded # <<>>

\* C17: an input that is empty after trimming starts a turn like any other:
\* a user message with empty content is appended to the history, a USER line
\* with empty content is written, and the request carries the message.
C17_BlankInput ==
    [][ /\ (pc = "input" /\ turns < MaxTurns) => ENABLED UserTurn(<<" ">>)
        /\ (pc = "input" /\ pc' = "request" /\ user' = <<>>) =>
               /\ history' = Append(history, Msg("user", <<>>))
               /\ file' = file \o LogLine(now(clock'), USER, <<>>)
               /\ LET n == Len(messages_to_send') - Len(TailPart)
                  IN  n >= 1 /\ messages_to_send'[n] = Msg("user", <<>>)
      ]_vars

C17_Witness ==
    /\ pc = "request" /\ user = <<>>
    /\ history[Len(history)] = Msg("user", <<>>)
    /\ successes >= 1

\* C18: every message of the history has role user or assistant.
C18_HistoryRoles ==
    \A i \in 1..Len(history) : history[i].role \in {"user", "assistant"}

C18_Witness ==
    /\ pc = "input" /\ successes >= 1 /\ loaded # <<>>
    /\ style_msgs # <<>> /\ sys_prompt # <<>> /\ tail_prompt # <<>>
    /\ \E i \in 1..Len(splitlines(file)) :
           LOG_RE_match(strip(splitlines(file)[i])).tag = NOTE

\* the message a log entry stands for
EntryMsg(e) == Msg(TagRole(e[1]), e[2])
\* the entries without the USER entries that no LLM entry follows
RECURSIVE AnsweredFrom(_, _)
AnsweredFrom(w, i) ==
    IF i > Len(w) THEN <<>>
    ELSE (IF w[i][1] = LLM \/ (i < Len(w) /\ w[i + 1][1] = LLM)
          THEN <<w[i]>> ELSE <<>>) \o AnsweredFrom(w, i + 1)
Answered(w) == AnsweredFrom(w, 1)
RECURSIVE LinesLen(_)
LinesLen(w) ==
    IF w = <<>> THEN 0
    ELSE Len(LogLine(now(0), Head(w)[1], Head(w)[2])) + LinesLen(Tail(w))

\* C19: while the session waits for input, the messages it has appended to
\* the history are the entries it has appended to the log without the USER
\* entries of failed turns; there are as many appended LLM entries as
\* successful turns, each right after a USER entry; and the appended messages
\* equal the appended entries exactly when no turn has failed.
C19_LogHistoryCorrespondence ==
    (pc = "input") =>
        LET sessionMsgs == SubSeq(history, Len(loaded) + 1, Len(history))
            entryMsgs(w) == [i \in 1..Len(w) |-> EntryMsg(w[i])]
        IN  /\ IsPrefix(loaded, history)
            /\ IsPrefix(file_start, file)
            /\ Len(file) = Len(file_start) + LinesLen(written)
            /\ sessionMsgs = entryMsgs(Answered(written))
            /\ Len(written) - Len(Answered(written)) = failures
            /\ Cardinality({i \in 1..Len(written) : written[i][1] = LLM}) = successes
            /\ \A i \in 1..Len(written) :
                   written[i][1] = LLM => (i > 1 /\ written[i - 1][1] = USER)
            /\ (sessionMsgs = entryMsgs(written)) <=> (failures = 0)

C19_Witness ==
    /\ pc = "input" /\ failures >= 1 /\ successes >= 1
    /\ Len(written) = 3 /\ file_start # <<>>

\* user, assistant, user, assistant, ...: empty or ending with assistant
Alternates(h) ==
    /\ Len(h) % 2 = 0
    /\ \A i \in 1..Len(h) : h[i].role = (IF i % 2 = 1 THEN "user" ELSE "assistant")

\* C20: when the loaded history alternates user, assistant (or is empty),
\* the history alternates whenever the session waits for input, and the
\* history part of every request is an alternating history followed by
\* exactly one user message.
C20_RoleAlternation ==
    Alternates(loaded) =>
        /\ (pc = "input") => Alternates(history)
        /\ (pc = "request") =>
               LET n == Len(messages_to_send) - Len(TailPart)
               IN  /\ Alternates(h0)
                   /\ history = Append(h0, UserMsg)
                   /\ n >= Len(history)
                   /\ SubSeq(messages_to_send, n - Len(history) + 1, n) = history

C20_Witness ==
    /\ Alternates(loaded) /\ loaded # <<>> /\ session = 1
    /\ pc = "request" /\ failures >= 1 /\ h0 # <<>>

====
